---- MODULE Spec2Model ----
(***************************************************************************)
(* Model of wasm-node/javascript/src/internals/local-instance.ts:          *)
(* the bridge between the JavaScript host and the smoldot WebAssembly      *)
(* instance ("the sandbox").                                               *)
(*                                                                         *)
(* JavaScript is single threaded, so the model is a call stack plus the    *)
(* suspended background executor:                                          *)
(*   - `stack` holds the sandbox entry-point calls that have not returned. *)
(*     The top frame is either running sandbox code ("run"), or is inside  *)
(*     an import that called `eventCallback` and the consumer's callback   *)
(*     has not returned yet ("cb", and "panicCb" for the wasm-panic event).*)
(*   - while the consumer's callback runs, or while no call is in flight,  *)
(*     the consumer may call any function of the returned `Instance`.      *)
(*   - the executor (the async function of lines 496-559) is suspended at  *)
(*     one of its two `await Promise.race(...)` or inside advance_execution*)
(***************************************************************************)
EXTENDS Integers, Sequences, FiniteSets, TLC

(***************************************************************************)
(* Bounds of the model.                                                    *)
(***************************************************************************)
\* Sandbox entry-point calls that may be in flight at once (nesting happens
\* when the consumer calls the Instance from inside an event callback).
MaxDepth == 2
\* Timers created by start_timer that may be pending at once.
MaxTimers == 1
\* Ticks of the clock that may happen between two readings of
\* performanceNow().
MaxTicks == 1

(***************************************************************************)
(* Program constants.                                                      *)
(***************************************************************************)
\* `if (missingSleep > 5)`
SleepThreshold == 5
\* `if (missingSleep > 2147483646) missingSleep = 2147483646`
MaxSetTimeout == 2147483646
\* `if (missingSleep < -10000) missingSleep = -10000`
MinMissingSleep == -10000

\* Milliseconds the clock read by config.performanceNow() advances in one
\* Tick: as much as the floor of line 550, so that a single tick takes
\* missingSleep over the threshold of line 523 and two of them below the floor.
TickStep == -MinMissingSleep

MaxElapsed == MaxTicks * TickStep

\* config.cpuRateLimit, as <<numerator, denominator>>.
RateLimits == { <<1, 2>>, <<1, 1>> }

VARIABLES
    instance,                           \* state.instance: "live" | "null"
    bufferIndices,                      \* state.bufferIndices: slot -> content
    advanceExecutionPromise,            \* state.advanceExecutionPromise: "null" | "resolveReady"
    onShutdownExecutorOrWasmPanic,      \* state.onShutdownExecutorOrWasmPanic: "resolveStop" | "noop"
    shutdownExecutorOrWasmPanicPromise, \* "pending" | "stop"
    whenReadyAgain,                     \* the executor's current ready promise: "pending" | "ready"
    cpuRateLimit,                       \* config.cpuRateLimit
    pc,                                 \* where the executor is
    race,                               \* settled value of the Promise.race being awaited
    missingSleep,                       \* the executor's local `missingSleep`
    sinceNow,                           \* config.performanceNow() - now
    sleepLeft,                          \* delay left on the executor's setTimeout
    timers,                             \* pending callbacks created by start_timer
    stack,                              \* sandbox entry-point calls in flight
    exc,                                \* an exception is propagating into the consumer's callback
    returned,                           \* startLocalInstance has returned the Instance
    wasmPanicEvents,                    \* number of wasm-panic events given to eventCallback
    executorShutdownEvents,             \* number of executor-shutdown events given to eventCallback
    shutdownRequested,                  \* shutdownExecutor has been called on a live instance
    lastFallback,                       \* what the last Instance call made with state.instance null did
    memory,                             \* instance.exports.memory.buffer, byte by byte
    params,                             \* arguments of the function under examination
    result,                             \* what the function under examination returned
    advanced,                           \* time spent inside advance_execution so far
    slept,                              \* time the executor has spent asleep so far
    currentTask,                        \* state.currentTask: a task name | "null"
    responses,                          \* the sandbox's queue of JSON-RPC responses of a chain
    popped,                             \* the responses json_rpc_responses_pop has removed so far
    peeked                              \* the responses peekJsonRpcResponse has returned so far

bridgeVars == <<instance, bufferIndices, advanceExecutionPromise, onShutdownExecutorOrWasmPanic>>
promiseVars == <<shutdownExecutorOrWasmPanicPromise, whenReadyAgain>>
executorVars == <<pc, race, missingSleep, sinceNow, sleepLeft>>
eventVars == <<wasmPanicEvents, executorShutdownEvents>>
historyVars == <<shutdownRequested, lastFallback>>
\* What no step of the running bridge changes: its configuration, and the
\* variables used to examine single functions in isolation.
fixedVars == <<cpuRateLimit, memory, params, result, advanced, slept, currentTask,
               responses, popped, peeked>>

vars == <<instance, bufferIndices, advanceExecutionPromise, onShutdownExecutorOrWasmPanic,
          shutdownExecutorOrWasmPanicPromise, whenReadyAgain, cpuRateLimit, pc, race,
          missingSleep, sinceNow, sleepLeft, timers, stack, exc, returned,
          wasmPanicEvents, executorShutdownEvents, shutdownRequested, lastFallback,
          memory, params, result, advanced, slept, currentTask, responses, popped, peeked>>

Slots == {0, 1, 2}

NoBuffers == [s \in Slots |-> "unset"]

Top(s) == s[Len(s)]

Pop(s) == SubSeq(s, 1, Len(s) - 1)

\* A sandbox entry-point call in flight: what its caller does when the export
\* returns (`cont`), what the sandbox is doing (`st`), and whether
\* state.instance was set when the call was made (`live`).
\*   cont = "executor"      advance_execution, called by the executor
\*          "timer"         timer_finished, called by a timer callback
\*          "return"        the caller returns, possibly with the export's result
\*          "request"       json_rpc_send inside request, which returns its result
\*          "deleteBuffer"  the caller deletes bufferIndices[0] and returns
\*          "peek"          json_rpc_responses_peek inside peekJsonRpcResponse
\*          "addChain"      add_chain inside addChain
\*          "addChainFails" remove_chain inside addChain
Frame(cont) == [cont |-> cont, st |-> "run", live |-> instance = "live"]

\* What a function under examination has done so far: nothing yet, returned
\* a value, or raised an exception.
NoResult == [kind |-> "none"]

Returns(v) == [kind |-> "return", value |-> v]

ReturnsNothing == [kind |-> "return"]

Throws(e) == [kind |-> "throw", error |-> e]

Init ==
    /\ instance = "live"
    /\ bufferIndices = NoBuffers
    /\ advanceExecutionPromise = "null"
    /\ onShutdownExecutorOrWasmPanic = "resolveStop"
    /\ shutdownExecutorOrWasmPanicPromise = "pending"
    /\ whenReadyAgain = "pending"
    /\ cpuRateLimit \in RateLimits
    /\ pc = "start"
    /\ race = "none"
    /\ missingSleep = 0
    /\ sinceNow = 0
    /\ sleepLeft = 0
    /\ timers = 0
    /\ stack = <<>>
    /\ exc = FALSE
    /\ returned = FALSE
    /\ wasmPanicEvents = 0
    /\ executorShutdownEvents = 0
    /\ shutdownRequested = FALSE
    /\ lastFallback = "none"
    /\ memory = <<>>
    /\ params = "none"
    /\ result = NoResult
    /\ advanced = 0
    /\ slept = 0
    /\ currentTask = "null"
    /\ responses = << >>
    /\ popped = << >>
    /\ peeked = << >>


(***************************************************************************)
(* Promises.                                                               *)
(***************************************************************************)
RaceAfterStopOnlyReadyRace == IF pc = "wait" /\ race = "none" THEN "stop" ELSE race

\* What the awaited Promise.race settles to when the stop promise resolves:
\* both races of the executor contain shutdownExecutorOrWasmPanicPromise.
RaceAfterStop == IF pc \in {"sleep", "wait"} /\ race = "none" THEN "stop" ELSE race

\* What the awaited Promise.race settles to when whenReadyAgain resolves:
\* only the second race contains it.
RaceAfterReady == IF pc = "wait" /\ race = "none" THEN "ready" ELSE race

\* Promise.race([sleepFinished, shutdownExecutorOrWasmPanicPromise]) at the
\* moment it is called: sleepFinished has just been created and is pending.
SleepRace == IF shutdownExecutorOrWasmPanicPromise = "stop" THEN "stop" ELSE "none"

\* The race of line 536 replaced by a test of the stop promise alone: the
\* executor goes on whether or not the sandbox has signalled.
ReadyRaceWithoutWaiting ==
    IF shutdownExecutorOrWasmPanicPromise = "stop" THEN "stop" ELSE "ready"

\* Promise.race([whenReadyAgain, shutdownExecutorOrWasmPanicPromise]) at the
\* moment it is called: of two promises that are already resolved, the first
\* of the array wins.
ReadyRace ==
    IF whenReadyAgain = "ready" THEN "ready"
    ELSE IF shutdownExecutorOrWasmPanicPromise = "stop" THEN "stop"
    ELSE "none"

\* Calling the function stored in state.onShutdownExecutorOrWasmPanic.
CallStopCallback(cb) ==
    IF cb = "resolveStop"
    THEN /\ shutdownExecutorOrWasmPanicPromise' = "stop"
         /\ race' = RaceAfterStop
    ELSE /\ UNCHANGED shutdownExecutorOrWasmPanicPromise
         /\ race' = race

(***************************************************************************)
(* The executor (lines 496-559).                                           *)
(***************************************************************************)
\* Line 520 computing the whole period (sleep + elapsed) instead of the sleep.
SleepWholePeriod(elapsed) == (elapsed * cpuRateLimit[2]) \div cpuRateLimit[1]

\* Line 520 multiplying by the rate instead of (1.0 / rate - 1.0).
SleepTimesRate(elapsed) == (elapsed * cpuRateLimit[1]) \div cpuRateLimit[2]

\* elapsed * (1.0 / cpuRateLimit - 1.0)
Sleep(elapsed) == (elapsed * (cpuRateLimit[2] - cpuRateLimit[1])) \div cpuRateLimit[1]

ExitEventAlways == executorShutdownEvents + 1

\* Lines 556-558: the number of executor-shutdown events after the loop is left.
ExitEvent == IF instance = "live" THEN executorShutdownEvents + 1 ELSE executorShutdownEvents

\* Lines 506-510: one turn of `while (true)` up to the call of advance_execution.
LoopTop ==
    /\ whenReadyAgain' = "pending"
    /\ advanceExecutionPromise' = "resolveReady"
    /\ IF instance = "live"
       THEN /\ stack' = <<Frame("executor")>>
            /\ pc' = "advance"
            /\ UNCHANGED <<executorShutdownEvents, returned>>
       ELSE /\ stack' = stack
            /\ pc' = "done"
            /\ executorShutdownEvents' = ExitEvent
            /\ returned' = TRUE

\* Lines 496-510: the async function runs synchronously, inside
\* startLocalInstance, up to its first advance_execution.
ExecutorStart ==
    /\ pc = "start"
    /\ stack = <<>>
    /\ LoopTop
    /\ UNCHANGED <<instance, bufferIndices, onShutdownExecutorOrWasmPanic,
                   shutdownExecutorOrWasmPanicPromise, fixedVars, race, missingSleep,
                   sinceNow, sleepLeft, timers, exc, wasmPanicEvents, historyVars>>

\* Lines 512-536: advance_execution has returned; account for the time it
\* took and suspend at the sleep race or at the ready race.
AdvanceExecutionReturns ==
    /\ stack # <<>>
    /\ Top(stack).cont = "executor"
    /\ Top(stack).st = "run"
    /\ LET ms == missingSleep + Sleep(sinceNow) IN
       IF ms > SleepThreshold
       THEN /\ missingSleep' = (IF ms > MaxSetTimeout THEN MaxSetTimeout ELSE ms)
            /\ sleepLeft' = missingSleep'
            /\ pc' = "sleep"
            /\ race' = SleepRace
       ELSE /\ missingSleep' = ms
            /\ sleepLeft' = sleepLeft
            /\ pc' = "wait"
            /\ race' = ReadyRace
    /\ sinceNow' = 0
    /\ stack' = <<>>
    /\ returned' = TRUE
    /\ UNCHANGED <<bridgeVars, promiseVars, fixedVars, timers, exc, eventVars, historyVars>>

\* Line 532-533: the sleep race has settled and the executor runs again.
SleepRaceSettled ==
    /\ pc = "sleep"
    /\ race # "none"
    /\ stack = <<>>
    /\ IF race = "stop"
       THEN /\ pc' = "done"
            /\ race' = "none"
            /\ executorShutdownEvents' = ExitEvent
       ELSE /\ pc' = "wait"
            /\ race' = ReadyRace
            /\ UNCHANGED executorShutdownEvents
    /\ UNCHANGED <<bridgeVars, promiseVars, fixedVars, missingSleep, sinceNow, sleepLeft,
                   timers, stack, exc, returned, wasmPanicEvents, historyVars>>

\* Lines 536-553 and 506-510: the ready race has settled and the executor
\* runs again, up to the next advance_execution.
ReadyRaceSettled ==
    /\ pc = "wait"
    /\ race # "none"
    /\ stack = <<>>
    /\ race' = "none"
    /\ IF race = "stop"
       THEN /\ pc' = "done"
            /\ executorShutdownEvents' = ExitEvent
            /\ UNCHANGED <<missingSleep, sinceNow, stack, whenReadyAgain,
                           advanceExecutionPromise, returned>>
       ELSE /\ LET ms == missingSleep - sinceNow IN
               missingSleep' = (IF ms < MinMissingSleep THEN MinMissingSleep ELSE ms)
            /\ sinceNow' = 0
            /\ LoopTop
    /\ UNCHANGED <<instance, bufferIndices, onShutdownExecutorOrWasmPanic,
                   shutdownExecutorOrWasmPanicPromise, fixedVars, sleepLeft, timers, exc,
                   wasmPanicEvents, historyVars>>

\* The executor has a continuation in the microtask queue: no macrotask
\* (timer, I/O) runs before it.
ExecutorRunnable == pc = "start" \/ (pc \in {"sleep", "wait"} /\ race # "none")

(***************************************************************************)
(* Time.                                                                   *)
(***************************************************************************)
\* The clock read by config.performanceNow() advances. Only the readings of
\* lines 512 and 539 and the executor's setTimeout observe it.
Tick ==
    /\ \/ pc = "advance" /\ Len(stack) = 1 /\ Top(stack).st = "run"
       \/ pc \in {"sleep", "wait"} /\ race = "none" /\ stack = <<>>
    /\ sinceNow + TickStep <= MaxElapsed
    /\ sinceNow' = sinceNow + TickStep
    /\ sleepLeft' = IF pc = "sleep"
                    THEN (IF sleepLeft > TickStep THEN sleepLeft - TickStep ELSE 0)
                    ELSE sleepLeft
    /\ UNCHANGED <<bridgeVars, promiseVars, fixedVars, pc, race, missingSleep, timers,
                   stack, exc, returned, eventVars, historyVars>>

\* Line 531: the callback of the executor's setTimeout resolves sleepFinished.
SleepFinished ==
    /\ pc = "sleep"
    /\ race = "none"
    /\ sleepLeft = 0
    /\ stack = <<>>
    /\ race' = "timeout"
    /\ UNCHANGED <<bridgeVars, promiseVars, fixedVars, pc, missingSleep, sinceNow,
                   sleepLeft, timers, stack, exc, returned, eventVars, historyVars>>


(***************************************************************************)
(* Calls into the sandbox and exceptions.                                  *)
(***************************************************************************)
\* The sandbox is executing the code of the innermost entry-point call.
Running == stack # <<>> /\ Top(stack).st = "run" /\ ~exc

SetTop(s, st) == [s EXCEPT ![Len(s)].st = st]

\* The unwinding below without the try/catch of lines 211-213 and 218-220.
ThrowTopTimerUncaught ==
    LET f == Top(stack)
        rest == Pop(stack)
    IN  /\ stack' = rest
        /\ IF f.cont = "executor"
           THEN /\ pc' = "rejected"
                /\ returned' = TRUE
                /\ exc' = FALSE
           ELSE /\ pc' = pc
                /\ returned' = returned
                /\ exc' = (f.cont = "timer" \/ rest # <<>>)

\* A JavaScript exception leaves the innermost entry-point call: it unwinds
\* the WebAssembly frames and reaches the host function that made the call.
\*  - the executor has no try/catch: its async function rejects;
\*  - the timer callbacks catch it (lines 211-213 and 218-220);
\*  - the functions of the Instance let it through to the consumer, which
\*    is either at top level or inside an event callback of the enclosing
\*    entry-point call.
ThrowTop ==
    LET f == Top(stack)
        rest == Pop(stack)
    IN  /\ stack' = rest
        /\ IF f.cont = "executor"
           THEN /\ pc' = "rejected"
                /\ returned' = TRUE
                /\ exc' = FALSE
           ELSE /\ pc' = pc
                /\ returned' = returned
                /\ exc' = (f.cont # "timer" /\ rest # <<>>)

(***************************************************************************)
(* The imports the sandbox calls (smoldotJsBindings and wasiBindings).     *)
(***************************************************************************)
\* Lines 139-151 calling eventCallback (line 147) before line 141 has
\* cleared state.instance.
PanicEventBeforeClearing ==
    /\ Running
    /\ IF instance = "null"
       THEN /\ ThrowTop
            /\ UNCHANGED <<instance, wasmPanicEvents>>
       ELSE /\ wasmPanicEvents' = wasmPanicEvents + 1
            /\ stack' = SetTop(stack, "panicCb")
            /\ UNCHANGED <<instance, pc, returned, exc>>
    /\ UNCHANGED <<bufferIndices, advanceExecutionPromise, onShutdownExecutorOrWasmPanic,
                   promiseVars, fixedVars, race, missingSleep, sinceNow, sleepLeft, timers,
                   executorShutdownEvents, historyVars>>

\* Lines 139-151, up to the call of eventCallback. With state.instance
\* already null, `instance.exports` raises a TypeError at line 146.
Panic ==
    /\ Running
    /\ IF instance = "null"
       THEN /\ ThrowTop
            /\ UNCHANGED <<instance, wasmPanicEvents>>
       ELSE /\ instance' = "null"
            /\ wasmPanicEvents' = wasmPanicEvents + 1
            /\ stack' = SetTop(stack, "panicCb")
            /\ UNCHANGED <<pc, returned, exc>>
    /\ UNCHANGED <<bufferIndices, advanceExecutionPromise, onShutdownExecutorOrWasmPanic,
                   promiseVars, fixedVars, race, missingSleep, sinceNow, sleepLeft, timers,
                   executorShutdownEvents, historyVars>>

\* Lines 415-421, up to the call of eventCallback.
ProcExit ==
    /\ Running
    /\ instance' = "null"
    /\ wasmPanicEvents' = wasmPanicEvents + 1
    /\ stack' = SetTop(stack, "panicCb")
    /\ UNCHANGED <<bufferIndices, advanceExecutionPromise, onShutdownExecutorOrWasmPanic,
                   promiseVars, fixedVars, executorVars, timers, exc, returned,
                   executorShutdownEvents, historyVars>>

\* Lines 148-150 and 422-424 giving a connection-reset event to eventCallback
\* once the wasm-panic callback has returned, instead of raising.
PanicResetsConnection ==
    /\ stack # <<>>
    /\ Top(stack).st = "panicCb"
    /\ ~exc
    /\ CallStopCallback(onShutdownExecutorOrWasmPanic)
    /\ onShutdownExecutorOrWasmPanic' = "noop"
    /\ stack' = SetTop(stack, "cb")
    /\ UNCHANGED <<instance, bufferIndices, advanceExecutionPromise, whenReadyAgain,
                   fixedVars, pc, missingSleep, sinceNow, sleepLeft, timers, exc, returned,
                   eventVars, historyVars>>

\* Lines 148-150 and 422-424: the wasm-panic callback has returned.
PanicThrows ==
    /\ stack # <<>>
    /\ Top(stack).st = "panicCb"
    /\ ~exc
    /\ CallStopCallback(onShutdownExecutorOrWasmPanic)
    /\ onShutdownExecutorOrWasmPanic' = "noop"
    /\ ThrowTop
    /\ UNCHANGED <<instance, bufferIndices, advanceExecutionPromise, whenReadyAgain,
                   fixedVars, missingSleep, sinceNow, sleepLeft, timers, eventVars,
                   historyVars>>

\* Lines 166-170 forgetting the resolve function without calling it.
AdvanceExecutionReadyUnheard ==
    /\ Running
    /\ advanceExecutionPromise' = "null"
    /\ UNCHANGED <<whenReadyAgain, race>>
    /\ UNCHANGED <<instance, bufferIndices, onShutdownExecutorOrWasmPanic,
                   shutdownExecutorOrWasmPanicPromise, fixedVars, pc, missingSleep,
                   sinceNow, sleepLeft, timers, stack, exc, returned, eventVars, historyVars>>

\* Lines 166-170.
AdvanceExecutionReady ==
    /\ Running
    /\ IF advanceExecutionPromise = "resolveReady"
       THEN /\ whenReadyAgain' = "ready"
            /\ race' = RaceAfterReady
       ELSE UNCHANGED <<whenReadyAgain, race>>
    /\ advanceExecutionPromise' = "null"
    /\ UNCHANGED <<instance, bufferIndices, onShutdownExecutorOrWasmPanic,
                   shutdownExecutorOrWasmPanicPromise, fixedVars, pc, missingSleep,
                   sinceNow, sleepLeft, timers, stack, exc, returned, eventVars, historyVars>>

\* Lines 195-223, the scheduling of the callback.
StartTimer ==
    /\ Running
    /\ timers < MaxTimers
    /\ timers' = timers + 1
    /\ UNCHANGED <<bridgeVars, promiseVars, fixedVars, executorVars, stack, exc, returned,
                   eventVars, historyVars>>

\* The imports that give one event to eventCallback.
EventImports == {"json_rpc_responses_non_empty", "log", "reset_connection",
                 "connection_stream_open", "connection_stream_reset", "stream_send",
                 "stream_send_close"}

\* The imports that read `instance.exports.memory` before anything else.
ReadsMemory(imp) == imp \in {"log", "stream_send", "connection_new"}

\* Lines 174-192 and 250-280: the import calls eventCallback, unless reading
\* the memory of a null state.instance raises a TypeError first.
EmitEvent(imp) ==
    /\ Running
    /\ IF ReadsMemory(imp) /\ instance = "null"
       THEN ThrowTop
       ELSE /\ stack' = SetTop(stack, "cb")
            /\ UNCHANGED <<pc, returned, exc>>
    /\ UNCHANGED <<bridgeVars, promiseVars, fixedVars, race, missingSleep, sinceNow,
                   sleepLeft, timers, eventVars, historyVars>>

\* Lines 237-239: parseMultiaddr accepted the address; the new-connection
\* event is given to eventCallback.
ConnectionNewAccepts ==
    /\ stack' = SetTop(stack, "cb")
    /\ UNCHANGED <<pc, returned, exc, bufferIndices>>

\* Lines 240-246: parseMultiaddr rejected the address; the message goes to
\* bufferIndices[0] and 1 is returned to the sandbox.
ConnectionNewRejects ==
    /\ bufferIndices' = [bufferIndices EXCEPT ![0] = "set"]
    /\ UNCHANGED <<pc, returned, exc, stack>>

\* Lines 227-247: reading the address out of the memory of a null
\* state.instance raises a TypeError (line 234).
ConnectionNew ==
    /\ Running
    /\ IF instance = "null"
       THEN /\ ThrowTop
            /\ UNCHANGED bufferIndices
       ELSE ConnectionNewAccepts \/ ConnectionNewRejects
    /\ UNCHANGED <<instance, advanceExecutionPromise, onShutdownExecutorOrWasmPanic,
                   promiseVars, fixedVars, race, missingSleep, sinceNow, sleepLeft, timers,
                   eventVars, historyVars>>

\* The consumer's eventCallback returns to the import, which returns to the
\* sandbox.
CallbackReturns ==
    /\ stack # <<>>
    /\ Top(stack).st = "cb"
    /\ ~exc
    /\ stack' = SetTop(stack, "run")
    /\ UNCHANGED <<bridgeVars, promiseVars, fixedVars, executorVars, timers, exc, returned,
                   eventVars, historyVars>>

(***************************************************************************)
(* Timers created by start_timer.                                          *)
(***************************************************************************)
TimerFiresUnguarded ==
    /\ stack = <<>>
    /\ ~ExecutorRunnable
    /\ timers > 0
    /\ timers' = timers - 1
    /\ stack' = <<Frame("timer")>>
    /\ UNCHANGED <<bridgeVars, promiseVars, fixedVars, executorVars, exc, returned,
                   eventVars, historyVars>>

\* Lines 209-221: the callback given to setImmediate or setTimeout.
TimerFires ==
    /\ stack = <<>>
    /\ ~ExecutorRunnable
    /\ timers > 0
    /\ timers' = timers - 1
    /\ IF instance = "null"
       THEN stack' = stack
       ELSE stack' = <<Frame("timer")>>
    /\ UNCHANGED <<bridgeVars, promiseVars, fixedVars, executorVars, exc, returned,
                   eventVars, historyVars>>


(***************************************************************************)
(* The functions of the returned Instance (lines 561-705).                 *)
(***************************************************************************)
\* The consumer holds the Instance and is executing: at top level, or inside
\* its eventCallback.
ConsumerMayCall ==
    /\ returned
    /\ ~exc
    /\ IF stack = <<>> THEN TRUE ELSE Top(stack).st \in {"cb", "panicCb"}

\* `if (!state.instance) return ...`: the function returns `outcome` and
\* touches nothing.
Fallback(outcome) ==
    /\ lastFallback' = outcome
    /\ UNCHANGED <<bridgeVars, promiseVars, fixedVars, executorVars, timers, stack, exc,
                   returned, eventVars, shutdownRequested>>

\* The function fills the buffers and calls the export `entry`; `cont` is
\* what it does when the export returns.
Forward(entry, cont, buffers) ==
    /\ Len(stack) < MaxDepth
    /\ bufferIndices' = buffers
    /\ stack' = Append(stack, Frame(cont))
    /\ UNCHANGED <<instance, advanceExecutionPromise, onShutdownExecutorOrWasmPanic,
                   promiseVars, fixedVars, executorVars, timers, exc, returned, eventVars,
                   historyVars>>

RequestEncodesFirst ==
    /\ ConsumerMayCall
    /\ IF instance = "null"
       THEN /\ lastFallback' = "2"
            /\ bufferIndices' = [bufferIndices EXCEPT ![0] = "set"]
            /\ UNCHANGED <<instance, advanceExecutionPromise, onShutdownExecutorOrWasmPanic,
                           promiseVars, fixedVars, executorVars, timers, stack, exc,
                           returned, eventVars, shutdownRequested>>
       ELSE Forward("json_rpc_send", "request", [bufferIndices EXCEPT ![0] = "set"])

RequestRefusedAfterShutdown ==
    /\ ConsumerMayCall
    /\ IF instance = "null" \/ onShutdownExecutorOrWasmPanic = "noop"
       THEN Fallback("2")
       ELSE Forward("json_rpc_send", "request", [bufferIndices EXCEPT ![0] = "set"])

\* Lines 562-567.
Request ==
    /\ ConsumerMayCall
    /\ IF instance = "null"
       THEN Fallback("2")
       ELSE Forward("json_rpc_send", "request", [bufferIndices EXCEPT ![0] = "set"])

\* Lines 569-574.
PeekJsonRpcResponse ==
    /\ ConsumerMayCall
    /\ IF instance = "null"
       THEN Fallback("null")
       ELSE Forward("json_rpc_responses_peek", "peek", bufferIndices)

\* Lines 589-611.
AddChain ==
    /\ ConsumerMayCall
    /\ IF instance = "null"
       THEN Fallback("add-chain-result: Smoldot has crashed")
       ELSE Forward("add_chain", "addChain", [s \in Slots |-> "set"])

\* Lines 628-632.
RemoveChain ==
    /\ ConsumerMayCall
    /\ IF instance = "null"
       THEN Fallback("return")
       ELSE Forward("remove_chain", "return", bufferIndices)

ShutdownExecutorClears ==
    /\ ConsumerMayCall
    /\ instance = "live"
    /\ instance' = "null"
    /\ onShutdownExecutorOrWasmPanic' = "noop"
    /\ CallStopCallback(onShutdownExecutorOrWasmPanic)
    /\ shutdownRequested' = TRUE
    /\ UNCHANGED <<bufferIndices, advanceExecutionPromise, whenReadyAgain,
                   fixedVars, pc, missingSleep, sinceNow, sleepLeft, timers, stack, exc,
                   returned, eventVars, lastFallback>>

\* Lines 634-640.
ShutdownExecutor ==
    /\ ConsumerMayCall
    /\ IF instance = "null"
       THEN Fallback("return")
       ELSE /\ onShutdownExecutorOrWasmPanic' = "noop"
            /\ CallStopCallback(onShutdownExecutorOrWasmPanic)
            /\ shutdownRequested' = TRUE
            /\ UNCHANGED <<instance, bufferIndices, advanceExecutionPromise, whenReadyAgain,
                           fixedVars, pc, missingSleep, sinceNow, sleepLeft, timers, stack,
                           exc, returned, eventVars, lastFallback>>

\* Lines 642-661.
ConnectionOpened ==
    /\ ConsumerMayCall
    /\ IF instance = "null"
       THEN Fallback("return")
       ELSE \/ Forward("connection_open_single_stream", "return", bufferIndices)
            \/ Forward("connection_open_multi_stream", "deleteBuffer",
                       [bufferIndices EXCEPT ![0] = "set"])

\* Lines 663-667.
ConnectionReset ==
    /\ ConsumerMayCall
    /\ IF instance = "null"
       THEN Fallback("return")
       ELSE Forward("connection_reset", "deleteBuffer", [bufferIndices EXCEPT ![0] = "set"])

\* Lines 671-679.
StreamWritableBytes ==
    /\ ConsumerMayCall
    /\ IF instance = "null"
       THEN Fallback("return")
       ELSE Forward("stream_writable_bytes", "return", bufferIndices)

\* Lines 681-685.
StreamMessage ==
    /\ ConsumerMayCall
    /\ IF instance = "null"
       THEN Fallback("return")
       ELSE Forward("stream_message", "deleteBuffer", [bufferIndices EXCEPT ![0] = "set"])

\* Lines 689-698.
StreamOpened ==
    /\ ConsumerMayCall
    /\ IF instance = "null"
       THEN Fallback("return")
       ELSE Forward("connection_stream_opened", "return", bufferIndices)

\* Lines 700-704.
StreamReset ==
    /\ ConsumerMayCall
    /\ IF instance = "null"
       THEN Fallback("return")
       ELSE Forward("stream_reset", "return", bufferIndices)

(***************************************************************************)
(* The sandbox returns from an entry point to the function that called it. *)
(***************************************************************************)
\* timer_finished (lines 212, 219), json_rpc_send (566),
\* json_rpc_responses_pop (582-583), remove_chain (631),
\* connection_open_single_stream (647), stream_writable_bytes (674),
\* connection_stream_opened (692), stream_reset (703): the caller does nothing
\* more with the bridge's state.
ReturnPlain ==
    /\ Running
    /\ Top(stack).cont \in {"timer", "return", "request"}
    /\ stack' = Pop(stack)
    /\ UNCHANGED <<bridgeVars, promiseVars, fixedVars, executorVars, timers, exc, returned,
                   eventVars, historyVars>>

\* Lines 656-657, 667-668 and 685-686: `delete state.bufferIndices[0]`.
ReturnDeleteBuffer ==
    /\ Running
    /\ Top(stack).cont = "deleteBuffer"
    /\ bufferIndices' = [bufferIndices EXCEPT ![0] = "unset"]
    /\ stack' = Pop(stack)
    /\ UNCHANGED <<instance, advanceExecutionPromise, onShutdownExecutorOrWasmPanic,
                   promiseVars, fixedVars, executorVars, timers, exc, returned, eventVars,
                   historyVars>>

\* Lines 574-586: json_rpc_responses_peek has returned. A zero length means
\* an empty queue; otherwise `state.instance.exports.json_rpc_responses_pop`
\* is called, which raises a TypeError if state.instance is null by now.
PeekReturns ==
    /\ Running
    /\ Top(stack).cont = "peek"
    /\ \E len \in {0, 1} :
          IF len = 0
          THEN /\ stack' = Pop(stack)
               /\ UNCHANGED <<pc, returned, exc>>
          ELSE IF instance = "null"
               THEN ThrowTop
               ELSE /\ stack' = Append(Pop(stack), Frame("return"))
                    /\ UNCHANGED <<pc, returned, exc>>
    /\ UNCHANGED <<bridgeVars, promiseVars, fixedVars, race, missingSleep, sinceNow,
                   sleepLeft, timers, eventVars, historyVars>>

\* Lines 611-623: add_chain has returned. The three buffers are deleted;
\* `state.instance.exports.chain_is_ok` raises a TypeError if state.instance
\* is null by now; a chain that is not ok is removed again.
AddChainReturns ==
    /\ Running
    /\ Top(stack).cont = "addChain"
    /\ bufferIndices' = NoBuffers
    /\ IF instance = "null"
       THEN ThrowTop
       ELSE \E ok \in BOOLEAN :
               /\ stack' = IF ok THEN Pop(stack)
                           ELSE Append(Pop(stack), Frame("addChainFails"))
               /\ UNCHANGED <<pc, returned, exc>>
    /\ UNCHANGED <<instance, advanceExecutionPromise, onShutdownExecutorOrWasmPanic,
                   promiseVars, fixedVars, race, missingSleep, sinceNow, sleepLeft, timers,
                   eventVars, historyVars>>

\* Lines 623-624: remove_chain has returned inside addChain, which gives the
\* failed add-chain-result to eventCallback.
AddChainFails ==
    /\ Running
    /\ Top(stack).cont = "addChainFails"
    /\ stack' = Pop(stack)
    /\ UNCHANGED <<bridgeVars, promiseVars, fixedVars, executorVars, timers, exc, returned,
                   eventVars, historyVars>>

(***************************************************************************)
(* The consumer and an exception raised by a function of the Instance that *)
(* it called from inside its eventCallback.                                *)
(***************************************************************************)
\* The callback catches the exception and goes on.
ConsumerCatches ==
    /\ exc
    /\ exc' = FALSE
    /\ UNCHANGED <<bridgeVars, promiseVars, fixedVars, executorVars, timers, stack,
                   returned, eventVars, historyVars>>

\* The callback lets the exception through: it leaves the import and unwinds
\* the enclosing entry-point call.
ConsumerRethrows ==
    /\ exc
    /\ ThrowTop
    /\ UNCHANGED <<bridgeVars, promiseVars, fixedVars, race, missingSleep, sinceNow,
                   sleepLeft, timers, eventVars, historyVars>>

Next ==
    \/ ExecutorStart
    \/ AdvanceExecutionReturns
    \/ SleepRaceSettled
    \/ ReadyRaceSettled
    \/ Tick
    \/ SleepFinished
    \/ Panic
    \/ ProcExit
    \/ PanicThrows
    \/ AdvanceExecutionReady
    \/ StartTimer
    \/ \E imp \in EventImports : EmitEvent(imp)
    \/ ConnectionNew
    \/ CallbackReturns
    \/ TimerFires
    \/ Request
    \/ PeekJsonRpcResponse
    \/ AddChain
    \/ RemoveChain
    \/ ShutdownExecutor
    \/ ConnectionOpened
    \/ ConnectionReset
    \/ StreamWritableBytes
    \/ StreamMessage
    \/ StreamOpened
    \/ StreamReset
    \/ ReturnPlain
    \/ ReturnDeleteBuffer
    \/ PeekReturns
    \/ AddChainReturns
    \/ AddChainFails
    \/ ConsumerCatches
    \/ ConsumerRethrows

Spec == Init /\ [][Next]_vars


\* The innermost of `d` entry-point calls in flight returns or throws.
Leaves(d) ==
    /\ Len(stack) = d
    /\ \/ AdvanceExecutionReturns
       \/ ReturnPlain
       \/ ReturnDeleteBuffer
       \/ PeekReturns
       \/ AddChainReturns
       \/ AddChainFails
       \/ PanicThrows

\* The consumer's callback, entered from the innermost of `d` calls, ends.
CallbackEnds(d) ==
    /\ Len(stack) = d
    /\ CallbackReturns \/ ConsumerCatches \/ ConsumerRethrows

\* What makes the executor go on when no call is in flight: the continuation
\* of a settled `await` (a microtask), the passing of time, the timer of
\* line 531.
ExecutorProceeds == SleepRaceSettled \/ ReadyRaceSettled \/ Tick \/ SleepFinished

\* The specification under which the progress of the executor is checked.
\* The executor goes on if it can again and again, also when the consumer
\* keeps calling the Instance in between (the host runs a microtask at the
\* end of the current task and a timer that is due between two tasks); at
\* every depth of nesting, the call into the sandbox returns and the
\* consumer's eventCallback returns.
FairSpec ==
    /\ Spec
    /\ SF_vars(ExecutorProceeds)
    /\ \A d \in 1..MaxDepth : SF_vars(Leaves(d)) /\ SF_vars(CallbackEnds(d))

(***************************************************************************)
(* Functions examined in isolation. The bridge itself is at rest: the      *)
(* variables below stay as startLocalInstance leaves them.                 *)
(***************************************************************************)
restVars == <<instance, advanceExecutionPromise, onShutdownExecutorOrWasmPanic,
              shutdownExecutorOrWasmPanicPromise, whenReadyAgain, pc, race, sinceNow,
              sleepLeft, timers, stack, exc, returned, wasmPanicEvents,
              executorShutdownEvents, shutdownRequested, lastFallback, currentTask,
              responses, popped, peeked>>

AtRest ==
    /\ instance = "live"
    /\ advanceExecutionPromise = "null"
    /\ onShutdownExecutorOrWasmPanic = "resolveStop"
    /\ shutdownExecutorOrWasmPanicPromise = "pending"
    /\ whenReadyAgain = "pending"
    /\ pc = "start"
    /\ race = "none"
    /\ sinceNow = 0
    /\ sleepLeft = 0
    /\ timers = 0
    /\ stack = <<>>
    /\ exc = FALSE
    /\ returned = FALSE
    /\ wasmPanicEvents = 0
    /\ executorShutdownEvents = 0
    /\ shutdownRequested = FALSE
    /\ lastFallback = "none"
    /\ currentTask = "null"
    /\ responses = << >>
    /\ popped = << >>
    /\ peeked = << >>

(***************************************************************************)
(* buffer_size and buffer_copy (lines 153-164).                            *)
(***************************************************************************)
\* Longest content of a buffer slot.
MaxLen == 2
\* Width of a WebAssembly pointer, in bits (32 in the program).
PtrBits == 3

\* Bytes of the memory of the sandbox.
MemSize == 2 ^ PtrBits - 2

Bytes == {0, 1, 255}

ByteSeqs == UNION {[1..n -> Bytes] : n \in 0..MaxLen}

\* An i32 as the sandbox passes it to an import.
Int32 == (0 - 2 ^ (PtrBits - 1))..(2 ^ (PtrBits - 1) - 1)

ToUint32AsIs(x) == x

\* `targetPtr >>> 0`
ToUint32(x) == x % (2 ^ PtrBits)

\* Here state.bufferIndices holds the bytes themselves, and an unset slot is
\* a hole of the array.
Unset(bufferIndex) == bufferIndex \notin DOMAIN bufferIndices

\* Lines 153-156. An unset slot has no byteLength: TypeError.
buffer_size(bufferIndex) ==
    IF Unset(bufferIndex) THEN Throws("TypeError")
    ELSE Returns(Len(bufferIndices[bufferIndex]))

\* Uint8Array.prototype.set(buf, offset) on `mem`: a source that does not
\* fit raises a RangeError and writes nothing.
Uint8ArraySet(mem, buf, offset) ==
    IF offset + Len(buf) > Len(mem)
    THEN mem
    ELSE [i \in 1..Len(mem) |->
             IF i - 1 \in offset..(offset + Len(buf) - 1) THEN buf[i - offset] ELSE mem[i]]

\* Lines 158-164: the memory after the call.
buffer_copy(bufferIndex, targetPtr) ==
    IF Unset(bufferIndex) THEN memory
    ELSE Uint8ArraySet(memory, bufferIndices[bufferIndex], ToUint32(targetPtr))

\* Lines 158-164: how the call ends.
buffer_copy_outcome(bufferIndex, targetPtr) ==
    IF Unset(bufferIndex) THEN Throws("TypeError")
    ELSE IF ToUint32(targetPtr) + Len(bufferIndices[bufferIndex]) > Len(memory)
         THEN Throws("RangeError")
         ELSE ReturnsNothing

BufferInit ==
    /\ AtRest
    /\ \E k \in Slots, b \in ByteSeqs : bufferIndices = [s \in {k} |-> b]
    /\ memory = [i \in 1..MemSize |-> 170]
    /\ params \in [bufferIndex : Slots, targetPtr : Int32]
    /\ result = NoResult
    /\ cpuRateLimit = <<1, 1>>
    /\ missingSleep = 0
    /\ advanced = 0
    /\ slept = 0

BufferSize ==
    /\ result = NoResult
    /\ result' = buffer_size(params.bufferIndex)
    /\ UNCHANGED <<restVars, bufferIndices, memory, params, cpuRateLimit, missingSleep,
                   advanced, slept>>

BufferCopy ==
    /\ result = NoResult
    /\ memory' = buffer_copy(params.bufferIndex, params.targetPtr)
    /\ result' = buffer_copy_outcome(params.bufferIndex, params.targetPtr)
    /\ UNCHANGED <<restVars, bufferIndices, params, cpuRateLimit, missingSleep,
                   advanced, slept>>

BufferNext == BufferSize \/ BufferCopy

BufferSpec == BufferInit /\ [][BufferNext]_vars

(***************************************************************************)
(* parseMultiaddr (lines 741-795).                                         *)
(*                                                                         *)
(* A string is held as the pieces between its '/' characters, as           *)
(* address.split("/") gives them: "/ip4/h/tcp/80" is <<"", "ip4", "h",     *)
(* "tcp", "80">>, the empty string is <<"">>.  A piece never holds a '/'.  *)
(***************************************************************************)
\* Longest host, in pieces, of the addresses examined.
MaxHost == 1

\* Pieces holding a line terminator, which '.' does not match and before
\* which '$' (no m flag) does not match either.
LineTerminated == {"h\nh", "80\n"}

\* (.*?) over the pieces from..to of p: at least one piece (the text between
\* two '/' of the pattern, possibly empty), none with a line terminator.
Dot(p, from, to) ==
    /\ from <= to
    /\ \A k \in from..to : p[k] \notin LineTerminated

Least(S) == CHOOSE x \in S : \A y \in S : x <= y

NoMatch == [matched |-> FALSE]

\* ^\/(ip4|ip6|dns4|dns6|dns)\/ and ^\/(ip4|ip6)\/ : the address starts with
\* '/' and its first component is one of the protocols.
StartsWith(p, protocols) == Len(p) >= 2 /\ p[1] = "" /\ p[2] \in protocols

TcpProtocols == {"ip4", "ip6", "dns4", "dns6", "dns"}
WebRtcProtocols == {"ip4", "ip6"}

\* Line 749: /^\/(ip4|ip6|dns4|dns6|dns)\/(.*?)\/tcp\/(.*?)$/ . The groups
\* are lazy: the host ends at the first "/tcp/" after which the rest matches.
TcpMatch(p) ==
    LET ends == {i \in 4..(Len(p) - 1) :
                    /\ p[i] = "tcp"
                    /\ Dot(p, 3, i - 1)
                    /\ Dot(p, i + 1, Len(p))}
    IN  IF ~StartsWith(p, TcpProtocols) \/ ends = {} THEN NoMatch
        ELSE LET i == Least(ends)
             IN  [matched |-> TRUE,
                  group |-> <<p[2], SubSeq(p, 3, i - 1), SubSeq(p, i + 1, Len(p))>>]

\* (ws|wss|tls\/ws)$
WsTags == {<<"ws">>, <<"wss">>, <<"tls", "ws">>}

\* Line 751: /^\/(ip4|ip6|dns4|dns6|dns)\/(.*?)\/tcp\/(.*?)\/(ws|wss|tls\/ws)$/ .
\* Lazy groups: the shortest host, then the shortest port, that let the rest
\* of the pattern match.
WsPortEnds(p, i) ==
    {j \in (i + 1)..(Len(p) - 1) :
        /\ Dot(p, i + 1, j)
        /\ SubSeq(p, j + 1, Len(p)) \in WsTags}

WsMatch(p) ==
    LET ends == {i \in 4..(Len(p) - 1) :
                    /\ p[i] = "tcp"
                    /\ Dot(p, 3, i - 1)
                    /\ WsPortEnds(p, i) # {}}
    IN  IF ~StartsWith(p, TcpProtocols) \/ ends = {} THEN NoMatch
        ELSE LET i == Least(ends)
                 j == Least(WsPortEnds(p, i))
             IN  [matched |-> TRUE,
                  group |-> <<p[2], SubSeq(p, 3, i - 1), SubSeq(p, i + 1, j),
                              SubSeq(p, j + 1, Len(p))>>]

\* Line 752: /^\/(ip4|ip6)\/(.*?)\/udp\/(.*?)\/webrtc-direct\/certhash\/(.*?)$/ .
WebRtcPortEnds(p, i) ==
    {j \in (i + 1)..(Len(p) - 3) :
        /\ Dot(p, i + 1, j)
        /\ p[j + 1] = "webrtc-direct"
        /\ p[j + 2] = "certhash"
        /\ Dot(p, j + 3, Len(p))}

WebRtcMatch(p) ==
    LET ends == {i \in 4..(Len(p) - 1) :
                    /\ p[i] = "udp"
                    /\ Dot(p, 3, i - 1)
                    /\ WebRtcPortEnds(p, i) # {}}
    IN  IF ~StartsWith(p, WebRtcProtocols) \/ ends = {} THEN NoMatch
        ELSE LET i == Least(ends)
                 j == Least(WebRtcPortEnds(p, i))
             IN  [matched |-> TRUE,
                  group |-> <<p[2], SubSeq(p, 3, i - 1), SubSeq(p, i + 1, j),
                              SubSeq(p, j + 3, Len(p))>>]

\* The characters of a string held as pieces: the pieces with their '/'
\* put back between them.
RECURSIVE Join(_)
Join(p) == IF Len(p) = 1 THEN <<p[1]>> ELSE <<p[1], "/">> \o Join(Tail(p))

\* Line 776: parseInt of the port text. It reads the decimal digits the
\* text starts with and stops at the first other character, so only the
\* first piece counts; without a leading digit the result is NaN.
NaN == [nan |-> TRUE]
ParseInt(p) ==
    CASE p[1] \in {"80", "80\n"} -> [number |-> 80]
      [] p[1] = "0" -> [number |-> 0]
      [] OTHER -> NaN

Success(address) == [success |-> TRUE, address |-> address]
Failure(error) == [success |-> FALSE, error |-> error]

\* Lines 755-770.
WsProto(wsParsed) == IF wsParsed.group[4] = <<"ws">> THEN "ws" ELSE "wss"

WsUrl(wsParsed) ==
    IF wsParsed.group[1] = "ip6"
    THEN <<WsProto(wsParsed), "://[">> \o Join(wsParsed.group[2]) \o <<"]:">>
             \o Join(wsParsed.group[3])
    ELSE <<WsProto(wsParsed), "://">> \o Join(wsParsed.group[2]) \o <<":">>
             \o Join(wsParsed.group[3])

\* Lines 754-770, with the third test applied to every WebSocket address.
WsBranchNonLocalAnyProto(wsParsed, forbidWs, forbidNonLocalWs, forbidWss) ==
    LET proto == WsProto(wsParsed)
    IN  IF proto = "ws" /\ forbidWs
        THEN Failure("WebSocket connections not available")
        ELSE IF proto = "wss" /\ forbidWss
        THEN Failure("WebSocket secure connections not available")
        ELSE IF /\ wsParsed.group[2] # <<"localhost">>
                /\ wsParsed.group[2] # <<"127.0.0.1">>
                /\ forbidNonLocalWs
        THEN Failure("Non-local WebSocket connections not available")
        ELSE Success([ty |-> "websocket", url |-> WsUrl(wsParsed)])

\* Lines 754-770.
WsBranch(wsParsed, forbidWs, forbidNonLocalWs, forbidWss) ==
    LET proto == WsProto(wsParsed)
    IN  IF proto = "ws" /\ forbidWs
        THEN Failure("WebSocket connections not available")
        ELSE IF proto = "wss" /\ forbidWss
        THEN Failure("WebSocket secure connections not available")
        ELSE IF /\ proto = "ws"
                /\ wsParsed.group[2] # <<"localhost">>
                /\ wsParsed.group[2] # <<"127.0.0.1">>
                /\ forbidNonLocalWs
        THEN Failure("Non-local WebSocket connections not available")
        ELSE Success([ty |-> "websocket", url |-> WsUrl(wsParsed)])

\* Lines 771-776.
TcpBranch(tcpParsed, forbidTcp) ==
    IF forbidTcp THEN Failure("TCP connections not available")
    ELSE Success([ty |-> "tcp", hostname |-> Join(tcpParsed.group[2]),
                  port |-> ParseInt(tcpParsed.group[3])])

\* Lines 778-791.
WebRtcBranch(webRTCParsed, forbidWebRtc) ==
    LET targetPort == webRTCParsed.group[3]
    IN  IF forbidWebRtc THEN Failure("WebRTC connections not available")
        ELSE IF targetPort = <<"0">> THEN Failure("Invalid WebRTC target port")
        ELSE Success([ty |-> "webrtc",
                      targetPort |-> Join(targetPort),
                      ipVersion |-> IF webRTCParsed.group[1] = "ip4" THEN "4" ELSE "6",
                      targetIp |-> Join(webRTCParsed.group[2]),
                      remoteCertMultibase |-> Join(webRTCParsed.group[4])])

\* Lines 741-795 with the last two branches merged: webRTCParsed is read
\* without the test of line 778.
parseMultiaddrUncheckedWebRtc(address, forbidTcp, forbidWs, forbidNonLocalWs, forbidWss, forbidWebRtc) ==
    LET tcpParsed == TcpMatch(address)
        wsParsed == WsMatch(address)
        webRTCParsed == WebRtcMatch(address)
    IN  IF wsParsed.matched
        THEN Returns(WsBranch(wsParsed, forbidWs, forbidNonLocalWs, forbidWss))
        ELSE IF tcpParsed.matched
        THEN Returns(TcpBranch(tcpParsed, forbidTcp))
        ELSE IF webRTCParsed.matched
        THEN Returns(WebRtcBranch(webRTCParsed, forbidWebRtc))
        ELSE Throws("TypeError")

\* Lines 741-795 with the tests of lines 754 and 771 in the other order.
parseMultiaddrTcpFirst(address, forbidTcp, forbidWs, forbidNonLocalWs, forbidWss, forbidWebRtc) ==
    LET tcpParsed == TcpMatch(address)
        wsParsed == WsMatch(address)
        webRTCParsed == WebRtcMatch(address)
    IN  IF tcpParsed.matched
        THEN Returns(TcpBranch(tcpParsed, forbidTcp))
        ELSE IF wsParsed.matched
        THEN Returns(WsBranch(wsParsed, forbidWs, forbidNonLocalWs, forbidWss))
        ELSE IF webRTCParsed.matched
        THEN Returns(WebRtcBranch(webRTCParsed, forbidWebRtc))
        ELSE Returns(Failure("Unrecognized multiaddr format"))

\* Lines 741-795.
parseMultiaddr(address, forbidTcp, forbidWs, forbidNonLocalWs, forbidWss, forbidWebRtc) ==
    LET tcpParsed == TcpMatch(address)
        wsParsed == WsMatch(address)
        webRTCParsed == WebRtcMatch(address)
    IN  IF wsParsed.matched
        THEN Returns(WsBranch(wsParsed, forbidWs, forbidNonLocalWs, forbidWss))
        ELSE IF tcpParsed.matched
        THEN Returns(TcpBranch(tcpParsed, forbidTcp))
        ELSE IF webRTCParsed.matched
        THEN Returns(WebRtcBranch(webRTCParsed, forbidWebRtc))
        ELSE Returns(Failure("Unrecognized multiaddr format"))

\* The addresses examined: a protocol, a host, a transport, a port and what
\* follows, each also in forms no grammar takes, then a few strings that do
\* not start as a multiaddr at all.
HostPieces == {"localhost", "127.0.0.1", "h", "tcp", "h\nh"}
Hosts == UNION {[1..n -> HostPieces] : n \in 0..MaxHost}
Ports == {<<"80">>, <<"0">>, <<"">>, <<"tls">>, <<"80\n">>, <<>>}
Tails == {<<>>, <<"ws">>, <<"wss">>, <<"tls", "ws">>, <<"ws", "">>,
          <<"webrtc-direct", "certhash">>,
          <<"webrtc-direct", "certhash", "c">>,
          <<"webrtc-direct", "certhash", "c", "tcp", "80">>,
          <<"webrtc-direct", "certhash", "c", "tcp", "80", "ws">>}
Shaped ==
    {<<"", protocol>> \o host \o <<transport>> \o port \o tail :
        protocol \in TcpProtocols \cup {"h"}, host \in Hosts,
        transport \in {"tcp", "udp"}, port \in Ports, tail \in Tails}
Unshaped == {<<"">>, <<"", "">>, <<"h">>, <<"ip4", "h", "tcp", "80">>,
             <<"h", "ip4", "h", "tcp", "80", "ws">>}
Addresses == Shaped \cup Unshaped

ParseInit ==
    /\ AtRest
    /\ bufferIndices = NoBuffers
    /\ memory = << >>
    /\ params \in [address : Addresses, forbidTcp : BOOLEAN, forbidWs : BOOLEAN,
                   forbidNonLocalWs : BOOLEAN, forbidWss : BOOLEAN,
                   forbidWebRtc : BOOLEAN]
    /\ result = NoResult
    /\ cpuRateLimit = <<1, 1>>
    /\ missingSleep = 0
    /\ advanced = 0
    /\ slept = 0

ParseMultiaddr ==
    /\ result = NoResult
    /\ result' = parseMultiaddr(params.address, params.forbidTcp, params.forbidWs,
                                params.forbidNonLocalWs, params.forbidWss,
                                params.forbidWebRtc)
    /\ UNCHANGED <<restVars, bufferIndices, memory, params, cpuRateLimit,
                   missingSleep, advanced, slept>>

ParseNext == ParseMultiaddr

ParseSpec == ParseInit /\ [][ParseNext]_vars

(***************************************************************************)
(* The rate limiting of the executor loop (lines 512-553) with a sandbox   *)
(* that is always ready again and timers that fire exactly on time: one    *)
(* step is one turn of the loop, from one reading of `now` to the next.    *)
(***************************************************************************)
\* Longest ordinary stay in advance_execution, in milliseconds.
MaxStep == 7
\* Accumulated time in advance_execution up to which turns are examined.
MaxAdvance == 30
\* A stay in advance_execution as long as the longest setTimeout delay.
LongAdvance == MaxSetTimeout
\* Largest number of milliseconds counted (the limit named at line 528).
MaxCounted == MaxSetTimeout + 1

\* The turn below with the test of line 523 taken as `missingSleep > 0`.
TurnWithoutThreshold(elapsed) ==
    LET due == missingSleep + Sleep(elapsed)
        delay == IF due > MaxSetTimeout THEN MaxSetTimeout ELSE due
        waited == IF due > 0 THEN delay ELSE 0
        left == (IF due > 0 THEN delay ELSE due) - waited
    IN  /\ missingSleep' = (IF left < MinMissingSleep THEN MinMissingSleep ELSE left)
        /\ advanced' = advanced + elapsed
        /\ slept' = slept + waited
        /\ UNCHANGED <<restVars, bufferIndices, memory, params, result, cpuRateLimit>>

\* Lines 512-553 for one turn in which advance_execution took `elapsed`.
Turn(elapsed) ==
    LET due == missingSleep + Sleep(elapsed)                        \* line 521
        delay == IF due > MaxSetTimeout THEN MaxSetTimeout ELSE due \* 528-529
        waited == IF due > SleepThreshold THEN delay ELSE 0         \* 523, 531, 536
        left == (IF due > SleepThreshold THEN delay ELSE due) - waited  \* line 549
    IN  /\ missingSleep' = (IF left < MinMissingSleep THEN MinMissingSleep ELSE left)
        /\ advanced' = advanced + elapsed
        /\ slept' = slept + waited
        /\ UNCHANGED <<restVars, bufferIndices, memory, params, result, cpuRateLimit>>

RateInit ==
    /\ AtRest
    /\ bufferIndices = NoBuffers
    /\ memory = << >>
    /\ params = "none"
    /\ result = NoResult
    /\ cpuRateLimit = <<1, 2>>
    /\ missingSleep = 0
    /\ advanced = 0
    /\ slept = 0

ShortTurn ==
    \E elapsed \in 0..MaxStep :
        /\ elapsed <= MaxAdvance - advanced
        /\ Turn(elapsed)

LongTurn ==
    /\ advanced <= MaxCounted - LongAdvance
    /\ Turn(LongAdvance)

RateNext == ShortTurn \/ LongTurn

RateSpec == RateInit /\ [][RateNext]_vars

(***************************************************************************)
(* The two clamps of missingSleep (lines 512-553) with a host that fires   *)
(* the timer and the ready signal as late as it likes: a turn of the loop  *)
(* is two steps, up to the suspension and from the wake-up on.             *)
(***************************************************************************)
\* How much later than asked the executor is woken, in milliseconds.
Lateness == {0, TickStep}
\* Time away from advance_execution up to which late wake-ups are examined.
MaxSlept == 3 * TickStep

\* What the two steps leave alone.
idleVars == <<instance, bufferIndices, advanceExecutionPromise,
              onShutdownExecutorOrWasmPanic, shutdownExecutorOrWasmPanicPromise,
              whenReadyAgain, cpuRateLimit, race, sinceNow, timers, stack, exc, returned,
              wasmPanicEvents, executorShutdownEvents, shutdownRequested, lastFallback,
              memory, params, result, currentTask, responses, popped, peeked>>

\* Lines 512-534: advance_execution took `elapsed`; the sleep owed is added
\* and, over the threshold, the timer is set with the capped delay.
AdvanceTook(elapsed) ==
    LET due == missingSleep + Sleep(elapsed)
        delay == IF due > MaxSetTimeout THEN MaxSetTimeout ELSE due
    IN  /\ pc \in {"start", "advance"}
        /\ advanced' = advanced + elapsed
        /\ IF due > SleepThreshold
           THEN /\ missingSleep' = delay
                /\ sleepLeft' = delay
                /\ pc' = "sleep"
           ELSE /\ missingSleep' = due
                /\ sleepLeft' = 0
                /\ pc' = "wait"
        /\ UNCHANGED <<idleVars, slept>>

\* The wake-up below without the floor of lines 550-551.
WokenWithoutFloor(late) ==
    LET away == sleepLeft + late
    IN  /\ pc \in {"sleep", "wait"}
        /\ missingSleep' = missingSleep - away
        /\ slept' = slept + away
        /\ sleepLeft' = 0
        /\ pc' = "advance"
        /\ UNCHANGED <<idleVars, advanced>>

\* Lines 536-553: the executor runs again `late` after the timer, if any,
\* was due; the time away is taken off missingSleep, down to the floor.
Woken(late) ==
    LET away == sleepLeft + late
        left == missingSleep - away
    IN  /\ pc \in {"sleep", "wait"}
        /\ missingSleep' = (IF left < MinMissingSleep THEN MinMissingSleep ELSE left)
        /\ slept' = slept + away
        /\ sleepLeft' = 0
        /\ pc' = "advance"
        /\ UNCHANGED <<idleVars, advanced>>

LateInit ==
    /\ AtRest
    /\ bufferIndices = NoBuffers
    /\ memory = << >>
    /\ params = "none"
    /\ result = NoResult
    /\ cpuRateLimit \in RateLimits
    /\ missingSleep = 0
    /\ advanced = 0
    /\ slept = 0

ShortAdvance ==
    \E elapsed \in 0..MaxStep :
        /\ elapsed <= MaxAdvance - advanced
        /\ AdvanceTook(elapsed)

LongAdvanceTaken ==
    /\ advanced <= MaxCounted - LongAdvance
    /\ AdvanceTook(LongAdvance)

WokenUp ==
    \E late \in Lateness :
        /\ late = 0 \/ late <= MaxSlept - slept
        /\ late <= MaxCounted - slept - sleepLeft
        /\ Woken(late)

LateNext == ShortAdvance \/ LongAdvanceTaken \/ WokenUp

LateSpec == LateInit /\ [][LateNext]_vars

(***************************************************************************)
(* The task name given with a wasm-panic event (lines 139-151, 282-292 and *)
(* 415-425). Only the sandbox calls in flight count here: a call made by   *)
(* the consumer from inside an event callback of the innermost one nests   *)
(* in it, and the innermost is the one that runs.                          *)
(***************************************************************************)
\* Sandbox entry-point calls that may be in flight at once.
MaxNested == 3
\* Calls of current_task_entered and current_task_exit examined in a run.
MaxCalls == 3

TaskNames == {"a", "b"}

Entered(name) == [import |-> "current_task_entered", name |-> name]
Exited == [import |-> "current_task_exit"]

\* The wasm-panic event of lines 147 and 417-421.
WasmPanic(task) == Returns([ty |-> "wasm-panic", currentTask |-> task])

\* What the steps below leave alone.
taskIdleVars == <<bufferIndices, advanceExecutionPromise, onShutdownExecutorOrWasmPanic,
                  shutdownExecutorOrWasmPanicPromise, whenReadyAgain, cpuRateLimit, pc,
                  race, missingSleep, sinceNow, sleepLeft, timers, exc, returned,
                  executorShutdownEvents, shutdownRequested, lastFallback, memory,
                  advanced, slept, responses, popped, peeked>>

\* A function of the Instance calls an export (lines 561-705): only with
\* state.instance set, at top level or from inside an event callback of the
\* call that is running.
TaskCallIn ==
    /\ instance = "live"
    /\ Len(stack) < MaxNested
    /\ stack' = Append(stack, Frame("return"))
    /\ UNCHANGED <<taskIdleVars, instance, currentTask, params, result, wasmPanicEvents>>

\* The running call returns.
TaskCallReturns ==
    /\ stack # <<>>
    /\ stack' = Pop(stack)
    /\ UNCHANGED <<taskIdleVars, instance, currentTask, params, result, wasmPanicEvents>>

\* Lines 282-288. Reading the name out of the memory of a null
\* state.instance raises a TypeError (line 286), which ends the running call.
CurrentTaskEntered(name) ==
    /\ stack # <<>>
    /\ Len(params) < MaxCalls
    /\ params' = Append(params, Entered(name))
    /\ IF instance = "null"
       THEN /\ stack' = Pop(stack)
            /\ UNCHANGED currentTask
       ELSE /\ currentTask' = name
            /\ UNCHANGED stack
    /\ UNCHANGED <<taskIdleVars, instance, result, wasmPanicEvents>>

\* Lines 290-292.
CurrentTaskExit ==
    /\ stack # <<>>
    /\ Len(params) < MaxCalls
    /\ params' = Append(params, Exited)
    /\ currentTask' = "null"
    /\ UNCHANGED <<taskIdleVars, instance, stack, result, wasmPanicEvents>>

\* Lines 139-151: the event carries state.currentTask; the Error of line
\* 150, or the TypeError of line 146 when state.instance is null already,
\* ends the running call.
TaskPanic ==
    /\ stack # <<>>
    /\ stack' = Pop(stack)
    /\ IF instance = "null"
       THEN UNCHANGED <<instance, result, wasmPanicEvents>>
       ELSE /\ instance' = "null"
            /\ result' = WasmPanic(currentTask)
            /\ wasmPanicEvents' = wasmPanicEvents + 1
    /\ UNCHANGED <<taskIdleVars, currentTask, params>>

\* Lines 415-425.
TaskProcExit ==
    /\ stack # <<>>
    /\ stack' = Pop(stack)
    /\ instance' = "null"
    /\ result' = WasmPanic(currentTask)
    /\ wasmPanicEvents' = wasmPanicEvents + 1
    /\ UNCHANGED <<taskIdleVars, currentTask, params>>

TaskInit ==
    /\ AtRest
    /\ bufferIndices = NoBuffers
    /\ memory = << >>
    /\ params = << >>
    /\ result = NoResult
    /\ cpuRateLimit = <<1, 1>>
    /\ missingSleep = 0
    /\ advanced = 0
    /\ slept = 0

TaskNext ==
    \/ TaskCallIn
    \/ TaskCallReturns
    \/ \E name \in TaskNames : CurrentTaskEntered(name)
    \/ CurrentTaskExit
    \/ TaskPanic
    \/ TaskProcExit

TaskSpec == TaskInit /\ [][TaskNext]_vars

(***************************************************************************)
(* peekJsonRpcResponse (lines 569-587) and the queue of responses that the *)
(* sandbox keeps for a chain. The responses are numbered in the order in   *)
(* which the sandbox queues them. As above, only the sandbox calls in      *)
(* flight count: a call made from inside an event callback of the          *)
(* innermost one nests in it.                                              *)
(***************************************************************************)
\* Responses the sandbox queues in a run.
MaxResponses == 2

\* A call of json_rpc_responses_peek or json_rpc_responses_pop in flight:
\*   st    "run"   the export has not looked at the queue yet
\*         "done"  the export has done its work and is about to return
\*   info  peek: what the export read, 0 for a length of 0
\*         pop:  the response that line 581 has decoded
PeekFrame(cont, st, info) == [cont |-> cont, st |-> st, live |-> instance = "live", info |-> info]

\* What the steps below leave alone.
peekIdleVars == <<bufferIndices, advanceExecutionPromise, onShutdownExecutorOrWasmPanic,
                  shutdownExecutorOrWasmPanicPromise, whenReadyAgain, cpuRateLimit, pc,
                  race, missingSleep, sinceNow, sleepLeft, timers, exc, returned,
                  executorShutdownEvents, shutdownRequested, memory, params, result,
                  advanced, slept, currentTask>>

\* The sandbox queues a response.
ResponseQueued ==
    /\ Len(popped) + Len(responses) < MaxResponses
    /\ responses' = Append(responses, Len(popped) + Len(responses) + 1)
    /\ UNCHANGED <<peekIdleVars, instance, stack, popped, peeked, lastFallback,
                   wasmPanicEvents>>

\* Lines 569-574: at top level or from inside an event callback of the call
\* that is running.
PeekCalled ==
    /\ IF instance = "null"
       THEN /\ lastFallback' = "null"
            /\ UNCHANGED stack
       ELSE /\ Len(stack) < MaxNested
            /\ stack' = Append(stack, PeekFrame("peek", "run", 0))
            /\ UNCHANGED lastFallback
    /\ UNCHANGED <<peekIdleVars, instance, responses, popped, peeked, wasmPanicEvents>>

\* json_rpc_responses_peek: the sandbox writes the place and the length of
\* the first response of the queue, a length of 0 if there is none.
JsonRpcResponsesPeek ==
    /\ stack # <<>>
    /\ Top(stack).cont = "peek"
    /\ Top(stack).st = "run"
    /\ stack' = Append(Pop(stack), PeekFrame("peek", "done",
                        IF responses = << >> THEN 0 ELSE Head(responses)))
    /\ UNCHANGED <<peekIdleVars, instance, responses, popped, peeked, lastFallback,
                   wasmPanicEvents>>

\* Lines 574-586: json_rpc_responses_peek has returned. With a length of 0
\* null is returned; otherwise the response is decoded and
\* `state.instance.exports.json_rpc_responses_pop` is called, which raises a
\* TypeError if state.instance is null by now.
PeekExportReturns ==
    /\ stack # <<>>
    /\ Top(stack).cont = "peek"
    /\ Top(stack).st = "done"
    /\ stack' = IF Top(stack).info = 0 \/ instance = "null"
                THEN Pop(stack)
                ELSE Append(Pop(stack), PeekFrame("pop", "run", Top(stack).info))
    /\ UNCHANGED <<peekIdleVars, instance, responses, popped, peeked, lastFallback,
                   wasmPanicEvents>>

\* json_rpc_responses_pop: the sandbox removes the first response of the
\* queue.
JsonRpcResponsesPop ==
    /\ stack # <<>>
    /\ Top(stack).cont = "pop"
    /\ Top(stack).st = "run"
    /\ stack' = Append(Pop(stack), PeekFrame("pop", "done", Top(stack).info))
    /\ IF responses = << >>
       THEN UNCHANGED <<responses, popped>>
       ELSE /\ responses' = Tail(responses)
            /\ popped' = Append(popped, Head(responses))
    /\ UNCHANGED <<peekIdleVars, instance, peeked, lastFallback, wasmPanicEvents>>

\* Lines 582-583: json_rpc_responses_pop has returned and the decoded
\* response is returned.
PopExportReturns ==
    /\ stack # <<>>
    /\ Top(stack).cont = "pop"
    /\ Top(stack).st = "done"
    /\ stack' = Pop(stack)
    /\ peeked' = Append(peeked, Top(stack).info)
    /\ UNCHANGED <<peekIdleVars, instance, responses, popped, lastFallback, wasmPanicEvents>>

\* Lines 139-151 and 415-425: the running call ends in a fatal failure.
PeekPanics ==
    /\ stack # <<>>
    /\ instance = "live"
    /\ instance' = "null"
    /\ wasmPanicEvents' = wasmPanicEvents + 1
    /\ stack' = Pop(stack)
    /\ UNCHANGED <<peekIdleVars, responses, popped, peeked, lastFallback>>

PeekInit ==
    /\ AtRest
    /\ bufferIndices = NoBuffers
    /\ memory = << >>
    /\ params = << >>
    /\ result = NoResult
    /\ cpuRateLimit = <<1, 1>>
    /\ missingSleep = 0
    /\ advanced = 0
    /\ slept = 0

PeekNext ==
    \/ ResponseQueued
    \/ PeekCalled
    \/ JsonRpcResponsesPeek
    \/ PeekExportReturns
    \/ JsonRpcResponsesPop
    \/ PopExportReturns
    \/ PeekPanics

PeekSpec == PeekInit /\ [][PeekNext]_vars

(***************************************************************************)
(* Claims.                                                                 *)
(***************************************************************************)

\* C1: over any run, at most one wasm-panic event is given to eventCallback.
C1_AtMostOneWasmPanic == wasmPanicEvents <= 1

\* C2: no sandbox entry point is invoked while state.instance is null: every
\* entry-point call in flight was made with the instance set.
C2_NoEntryAfterClear == \A i \in 1..Len(stack) : stack[i].live

\* C2 witness: after a crash inside a nested call that the consumer caught,
\* the outer call is still in flight and the consumer, inside its callback,
\* has called request, which took the fallback.
C2_Witness ==
    /\ instance = "null"
    /\ stack # <<>>
    /\ Top(stack).st = "cb"
    /\ lastFallback = "2"

FallbackStep(outcome) ==
    /\ lastFallback' = outcome
    /\ UNCHANGED <<bridgeVars, promiseVars, fixedVars, executorVars, timers, stack, exc,
                   returned, eventVars, shutdownRequested>>

\* C3: with state.instance null every function of the Instance returns its
\* safe default without raising: request returns 2, peekJsonRpcResponse
\* returns null, addChain emits the add-chain-result failure "Smoldot has
\* crashed", and the others return; none changes the state of the bridge or
\* emits another event.
C3_SafeDefaults ==
    [][(instance = "null" /\ ConsumerMayCall) =>
           /\ Request => FallbackStep("2")
           /\ PeekJsonRpcResponse => FallbackStep("null")
           /\ AddChain => FallbackStep("add-chain-result: Smoldot has crashed")
           /\ (RemoveChain \/ ShutdownExecutor \/ ConnectionOpened \/ ConnectionReset
                 \/ StreamWritableBytes \/ StreamMessage \/ StreamOpened \/ StreamReset)
                  => FallbackStep("return")]_vars

\* C3 witness: addChain was called after a wasm-panic event and emitted the
\* failure.
C3_Witness ==
    /\ instance = "null"
    /\ wasmPanicEvents = 1
    /\ lastFallback = "add-chain-result: Smoldot has crashed"

\* C4: a failure signal (panic or proc_exit) that arrives with state.instance
\* already null emits no wasm-panic event and does not resolve the stop
\* promise again.
C4_SecondFailureSilent ==
    [][(instance = "null" /\ (Panic \/ ProcExit)) =>
           /\ wasmPanicEvents' = wasmPanicEvents
           /\ ~(stack' # <<>> /\ Top(stack').st = "panicCb")]_vars


\* C5, as stated: whenever the loop of the executor has been left, exactly
\* one executor-shutdown event has been emitted.
C5_ShutdownEventOnEveryExit == pc = "done" => executorShutdownEvents = 1

\* C5, amended: when the loop of the executor is left through a break,
\* executor-shutdown is emitted once if state.instance is still set and not
\* at all if a fatal failure has cleared it; it is emitted at no other
\* moment, so never more than once.
C5_ShutdownEventIffLive ==
    [][/\ (pc # "done" /\ pc' = "done") =>
              executorShutdownEvents' =
                  executorShutdownEvents + (IF instance = "live" THEN 1 ELSE 0)
       /\ ~(pc # "done" /\ pc' = "done") => UNCHANGED executorShutdownEvents
       /\ executorShutdownEvents' <= 1]_vars

\* C5 witness: the loop was left after shutdownExecutor, with the instance
\* set, and the event was emitted.
C5_Witness ==
    /\ pc = "done"
    /\ instance = "live"
    /\ shutdownRequested
    /\ executorShutdownEvents = 1

\* C6: once shutdownExecutor has been called on a live instance, an
\* executor-shutdown event is eventually emitted, as long as every call into
\* the sandbox returns. (Runs in which a fatal failure clears state.instance
\* are left aside: the event is not expected there.)
C6_ShutdownEventuallyEmitted ==
    (shutdownRequested /\ instance = "live") ~>
        (executorShutdownEvents = 1 \/ instance = "null")

\* C7: when the executor reaches a suspension point (sleep race or ready
\* race) after shutdownExecutor has been called on a live instance, the race
\* settles to "stop", so that the loop is left there and no further
\* advance_execution is started.
C7_ExitsAtFirstSuspension ==
    [][(shutdownRequested /\ instance = "live" /\ pc' # pc /\ pc' \in {"sleep", "wait"}) =>
           race' = "stop"]_vars

\* C8: shutdownExecutor called on a live instance while the executor is in
\* its rate-limit sleep settles the sleep race at once, whatever delay is
\* left on the timer, and the executor's next step leaves the loop without
\* starting another advance_execution.
C8_ShutdownEndsSleep ==
    [][/\ (pc = "sleep" /\ race = "none" /\ instance = "live" /\ ShutdownExecutor) =>
              race' = "stop"
       /\ (pc = "sleep" /\ race = "stop") =>
              /\ pc' \in {"sleep", "done"}
              /\ race' = IF pc' = "sleep" THEN "stop" ELSE "none"
              /\ SleepRaceSettled => (pc' = "done" /\ stack' = <<>>)]_vars

\* C8 witness: the loop was left from the sleep, after shutdownExecutor,
\* while the timer still had delay left.
C8_Witness ==
    /\ pc = "done"
    /\ sleepLeft > 0
    /\ shutdownRequested
    /\ executorShutdownEvents = 1

\* C9, as stated: once the sandbox is destroyed, by a crash or by an explicit
\* shutdown request, state.instance is null.
C9_ClearedByCrashOrShutdown ==
    (wasmPanicEvents > 0 \/ shutdownRequested) => instance = "null"

\* C9, amended: a fatal failure clears state.instance, and once null it stays
\* null; shutdownExecutor does not clear it.
C9_ClearedStaysCleared ==
    [][/\ instance = "null" => instance' = "null"
       /\ wasmPanicEvents' > wasmPanicEvents => instance' = "null"
       /\ ShutdownExecutor => instance' = instance]_vars

\* C9 witness: after a crash, the instance is null while calls keep coming.
C9_Witness ==
    /\ instance = "null"
    /\ wasmPanicEvents = 1
    /\ lastFallback = "null"

ForwardStep(A) ==
    (shutdownRequested /\ instance = "live" /\ A) =>
        /\ Len(stack') = Len(stack) + 1
        /\ Top(stack').live
        /\ Top(stack').st = "run"
        /\ lastFallback' = lastFallback

\* C10: after shutdownExecutor, as long as no crash has cleared
\* state.instance, the functions of the Instance still call the sandbox's
\* exports instead of taking the fallback; the executor, once it has left
\* its loop, does not run again.
C10_UsableAfterShutdown ==
    [][/\ ForwardStep(Request)
       /\ ForwardStep(PeekJsonRpcResponse)
       /\ ForwardStep(AddChain)
       /\ ForwardStep(RemoveChain)
       /\ ForwardStep(ConnectionOpened)
       /\ ForwardStep(ConnectionReset)
       /\ ForwardStep(StreamWritableBytes)
       /\ ForwardStep(StreamMessage)
       /\ ForwardStep(StreamOpened)
       /\ ForwardStep(StreamReset)
       /\ pc = "done" => pc' = "done"]_vars

\* C10 witness: the executor has stopped after shutdownExecutor and a call
\* made by the consumer is running in the sandbox.
C10_Witness ==
    /\ shutdownRequested
    /\ executorShutdownEvents = 1
    /\ pc = "done"
    /\ instance = "live"
    /\ stack # <<>>
    /\ Top(stack).st = "run"

\* C11: at most one sandbox entry-point call is in flight at any time.
C11_NoReentrancy == Len(stack) <= 1

\* C12: every call of an import that has an event kind gives exactly one
\* event to eventCallback, during the call itself: the import enters the
\* consumer's callback before it returns, so that events are neither
\* dropped, batched nor reordered.
C12_EverySignalOneEvent ==
    [][/\ \A imp \in EventImports :
              EmitEvent(imp) => (Len(stack') = Len(stack) /\ Top(stack').st = "cb")
       /\ Panic => /\ wasmPanicEvents' = wasmPanicEvents + 1
                   /\ Len(stack') = Len(stack)
                   /\ Top(stack').st = "panicCb"]_vars

\* C13: when a function of the Instance that set buffer slots returns, the
\* slots it set are unset again: slot 0 after request, connectionOpened
\* (multi-stream), connectionReset and streamMessage, all three after
\* addChain.
C13_SlotsUnsetOnReturn ==
    [][/\ (ReturnPlain /\ Top(stack).cont = "request") => bufferIndices'[0] = "unset"
       /\ ReturnDeleteBuffer => bufferIndices'[0] = "unset"
       /\ AddChainReturns => bufferIndices' = NoBuffers]_vars

\* The call number i in flight set slot 0 and has not returned after the step.
HoldsSlot(i) ==
    /\ stack[i].cont \in {"request", "deleteBuffer", "addChain"}
    /\ i <= Len(stack')
    /\ stack'[i].cont = stack[i].cont

\* C14: while a call that set slot 0 is in flight, slot 0 is neither cleared
\* nor written by another operation: not by a function of the Instance
\* called meanwhile, not by the rejection path of connection_new.
C14_SlotNotInterleaved ==
    [][\A i \in 1..Len(stack) :
           HoldsSlot(i) =>
               /\ bufferIndices'[0] = "set"
               /\ ~(ConnectionNew /\ ConnectionNewRejects)
               /\ Len(stack') > Len(stack) =>
                      Top(stack').cont \notin {"request", "deleteBuffer", "addChain"}]_vars

\* C16: connection_new ends in one of two ways: the new-connection event is
\* given to eventCallback and nothing else changes, or no event is emitted
\* and the message is in slot 0; it never clears state.instance nor emits
\* wasm-panic, and it does not raise.
C16_ConnectionNewTwoOutcomes ==
    [][ConnectionNew =>
           /\ \/ /\ Len(stack') = Len(stack)
                 /\ Top(stack').st = "cb"
                 /\ bufferIndices' = bufferIndices
              \/ /\ stack' = stack
                 /\ bufferIndices'[0] = "set"
           /\ instance' = instance
           /\ wasmPanicEvents' = wasmPanicEvents]_vars

\* Where buffer_copy must write: the pointer read as an unsigned integer.
Destination == IF params.targetPtr < 0 THEN params.targetPtr + 2 ^ PtrBits ELSE params.targetPtr

\* C15: buffer_size returns the exact length of the content of the slot, and
\* buffer_copy, when the content fits in the memory at the destination,
\* writes exactly these bytes in order from the destination on and changes
\* no other byte; neither changes the slot.
C15_BufferExact ==
    [][params.bufferIndex \in DOMAIN bufferIndices =>
       LET buf == bufferIndices[params.bufferIndex] IN
       /\ BufferSize =>
              /\ result' = Returns(Len(buf))
              /\ memory' = memory
              /\ bufferIndices' = bufferIndices
       /\ (BufferCopy /\ Destination + Len(buf) <= MemSize) =>
              /\ \A j \in 1..Len(buf) : memory'[Destination + j] = buf[j]
              /\ \A i \in 1..MemSize :
                     i - 1 \notin Destination..(Destination + Len(buf) - 1) =>
                         memory'[i] = memory[i]
              /\ result' = ReturnsNothing
              /\ bufferIndices' = bufferIndices]_vars

\* C15 witness: a content of the greatest length has been copied to a
\* destination given as a negative i32.
C15_Witness ==
    /\ result.kind = "return"
    /\ params.targetPtr < 0
    /\ params.bufferIndex \in DOMAIN bufferIndices
    /\ Len(bufferIndices[params.bufferIndex]) = MaxLen
    /\ \E i \in 1..MemSize : memory[i] # 170

\* C17: parseMultiaddr always returns, never raises: a success carries a tcp,
\* websocket or webrtc descriptor, a failure carries a non-empty message, and
\* an address that none of the three grammars matches gets the failure
\* "Unrecognized multiaddr format".
C17_ParseTotal ==
    result # NoResult =>
        /\ result.kind = "return"
        /\ result.value.success =>
               result.value.address.ty \in {"tcp", "websocket", "webrtc"}
        /\ ~result.value.success => result.value.error # ""
        /\ (/\ ~TcpMatch(params.address).matched
            /\ ~WsMatch(params.address).matched
            /\ ~WebRtcMatch(params.address).matched)
               => result.value = Failure("Unrecognized multiaddr format")

\* C17 witness: a TCP-looking address whose host holds a line terminator has
\* been refused as unrecognized.
C17_Witness ==
    /\ params.address = <<"", "ip4", "h\nh", "tcp", "80">>
    /\ result = Returns(Failure("Unrecognized multiaddr format"))

\* C18: an address of WebSocket shape in the plain form is rejected exactly
\* when forbidWs is set, or forbidNonLocalWs is set and the host is neither
\* "localhost" nor "127.0.0.1"; in a secure form it is rejected exactly when
\* forbidWss is set; otherwise a websocket descriptor is returned.
C18_WsDenyRules ==
    (result # NoResult /\ WsMatch(params.address).matched) =>
        LET shape == WsMatch(params.address).group
            plain == shape[4] = <<"ws">>
            loopback == shape[2] \in {<<"localhost">>, <<"127.0.0.1">>}
        IN  /\ result.kind = "return"
            /\ plain =>
                   (~result.value.success <=>
                        \/ params.forbidWs
                        \/ params.forbidNonLocalWs /\ ~loopback)
            /\ ~plain => (~result.value.success <=> params.forbidWss)
            /\ result.value.success => result.value.address.ty = "websocket"

\* C18 witness: a secure address of a non-local host has been accepted with
\* both plain WebSocket denials set.
C18_Witness ==
    /\ params.address = <<"", "ip4", "h", "tcp", "80", "tls", "ws">>
    /\ params.forbidWs /\ params.forbidNonLocalWs /\ ~params.forbidWss
    /\ result.kind = "return"
    /\ result.value.success
    /\ result.value.address.ty = "websocket"

\* The one transport kind an address can be accepted as.
AcceptedKind(address) ==
    IF WsMatch(address).matched THEN "websocket"
    ELSE IF TcpMatch(address).matched THEN "tcp"
    ELSE IF WebRtcMatch(address).matched THEN "webrtc"
    ELSE "none"

\* The address is a TCP-shaped address followed by /ws, /wss or /tls/ws.
TcpThenTag(address) ==
    \E tag \in WsTags :
        /\ Len(address) > Len(tag)
        /\ SubSeq(address, Len(address) - Len(tag) + 1, Len(address)) = tag
        /\ TcpMatch(SubSeq(address, 1, Len(address) - Len(tag))).matched

\* C19: an address made of a TCP shape followed by /ws, /wss or /tls/ws is
\* handled as WebSocket (websocket descriptor or a WebSocket refusal) and is
\* never returned as a tcp descriptor, whatever the deny flags; and the kind
\* an address is accepted as depends on the address alone, so that no address
\* is accepted as more than one transport kind.
C19_NoAmbiguity ==
    result # NoResult =>
        /\ result.kind = "return"
        /\ TcpThenTag(params.address) =>
               IF result.value.success
               THEN result.value.address.ty = "websocket"
               ELSE result.value.error \in
                        {"WebSocket connections not available",
                         "WebSocket secure connections not available",
                         "Non-local WebSocket connections not available"}
        /\ result.value.success =>
               result.value.address.ty = AcceptedKind(params.address)

\* C19 witness: a plain WebSocket address has been refused as WebSocket with
\* WebSocket denied and TCP allowed.
C19_Witness ==
    /\ params.address = <<"", "ip4", "h", "tcp", "80", "ws">>
    /\ params.forbidWs /\ ~params.forbidTcp
    /\ result = Returns(Failure("WebSocket connections not available"))

\* Time spent in advance_execution that was neither slept nor is owed.
Unaccounted == advanced - slept - missingSleep

\* C20 as stated: with cpuRateLimit = 0.5, at every start of a turn the time
\* spent in advance_execution differs from the time slept by no more than
\* the deficit carried, which is at most the threshold of 5 ms.
C20_SleepMatchesAdvance ==
    /\ missingSleep \in 0..SleepThreshold
    /\ advanced - slept \in 0..missingSleep

\* C20: with cpuRateLimit = 0.5, a turn whose deficit does not exceed the
\* longest setTimeout delay adds as much to the time slept plus the deficit
\* carried as to the time spent in advance_execution, and the deficit carried
\* to the next turn is between 0 and the threshold of 5 ms.
C20_SleepMatchesAdvanceUnderCap ==
    [][(missingSleep + (advanced' - advanced) <= MaxSetTimeout) =>
           /\ Unaccounted' = Unaccounted
           /\ missingSleep' \in 0..SleepThreshold]_vars

\* C20 witness: time was slept, a deficit under the threshold is carried and
\* all the time spent in advance_execution is slept or owed.
C20_Witness ==
    /\ cpuRateLimit = <<1, 2>>
    /\ slept > SleepThreshold
    /\ missingSleep \in 1..SleepThreshold
    /\ advanced = slept + missingSleep

\* C21: with cpuRateLimit = 1.0 the sleep computed for the time spent in
\* advance_execution is zero, missingSleep never rises above zero, and the
\* executor never schedules its setTimeout: it is never at the sleep race and
\* no delay is ever set.
C21_NoSleepAtFullRate ==
    cpuRateLimit = <<1, 1>> =>
        /\ Sleep(sinceNow) = 0
        /\ missingSleep <= 0
        /\ pc # "sleep"
        /\ sleepLeft = 0

\* C21 witness: at full rate, time passed during an advance_execution and
\* during the wait that followed, and the executor went on to another
\* advance_execution with a negative missingSleep.
C21_Witness ==
    /\ cpuRateLimit = <<1, 1>>
    /\ pc = "advance"
    /\ sinceNow > 0
    /\ missingSleep < 0

\* The step gives an event other than wasm-panic to eventCallback from inside
\* the innermost entry-point call.
EntersCallback ==
    /\ stack # <<>>
    /\ Len(stack') = Len(stack)
    /\ Top(stack).st # "cb"
    /\ Top(stack').st = "cb"

\* C22: the events the sandbox asks for through its imports, connection-reset
\* and connection-stream-reset among them, are given to eventCallback only by
\* the import the running sandbox called, during that call; shutdownExecutor,
\* a fatal failure (panic, proc_exit and what follows the wasm-panic callback)
\* and the executor leaving its loop give no such event.
C22_NoResetByTheBridge ==
    [][/\ EntersCallback =>
              /\ Running
              /\ (\E imp \in EventImports : EmitEvent(imp)) \/ ConnectionNew
       /\ (\/ ShutdownExecutor
           \/ Panic
           \/ ProcExit
           \/ PanicThrows
           \/ pc # pc' /\ pc' \in {"done", "rejected"}) => ~EntersCallback]_vars

\* C22 witness: after shutdownExecutor and the end of the executor, the
\* sandbox, called by the consumer, called an import and its event is in the
\* hands of eventCallback.
C22_Witness ==
    /\ shutdownRequested
    /\ pc = "done"
    /\ executorShutdownEvents = 1
    /\ stack # <<>>
    /\ Top(stack).st = "cb"

\* C23: each callback scheduled by start_timer makes at most one call of
\* timer_finished: when it fires it is used up, and it calls timer_finished
\* if state.instance is set and nothing if it is null; timer_finished is
\* called by nothing else; an exception that leaves timer_finished stops in
\* the callback: it reaches neither the consumer nor the executor.
C23_TimerFinishedOnce ==
    [][/\ StartTimer => timers' = timers + 1
       /\ TimerFires =>
              /\ timers' = timers - 1
              /\ stack' = IF instance = "live"
                          THEN <<[cont |-> "timer", st |-> "run", live |-> TRUE]>>
                          ELSE <<>>
       /\ (Len(stack') > Len(stack) /\ Top(stack').cont = "timer") =>
              (stack = <<>> /\ timers' = timers - 1)
       /\ (stack # <<>> /\ Top(stack).cont = "timer" /\ Len(stack') < Len(stack)) =>
              (~exc' /\ pc' = pc /\ stack' = <<>>)]_vars

\* C23 witness: the sandbox has failed inside timer_finished and the
\* wasm-panic callback is running; no other callback is pending.
C23_Witness ==
    /\ timers = 0
    /\ Len(stack) = 1
    /\ Top(stack).cont = "timer"
    /\ Top(stack).st = "panicCb"

\* C24: in a turn of the loop the executor sleeps on a timer if and only if
\* missingSleep, once the sleep owed for this turn's advance_execution is
\* added, exceeds 5 ms; when it does not, no time is slept and the sum is
\* carried to the next turn.
C24_SleepIffOverThreshold ==
    [][LET due == missingSleep + Sleep(advanced' - advanced)
       IN  /\ slept' # slept <=> due > 5
           /\ due <= 5 => missingSleep' = due]_vars

\* C24 witness: two turns have gone by without a timer and a deficit of
\* exactly 5 ms is carried.
C24_Witness ==
    /\ advanced = 5
    /\ missingSleep = 5
    /\ slept = 0

\* C25: with a clock that does not go back and cpuRateLimit in (0, 1],
\* missingSleep is never below -10000 ms where the executor suspends or
\* starts a turn, however late it is woken, and the delay given to
\* setTimeout is never above 2147483646 ms.
C25_DeficitClamped ==
    /\ missingSleep >= -10000
    /\ sleepLeft <= 2147483646

\* C25 witness: the executor was away long enough for the deficit to fall
\* below the floor, and starts a turn with missingSleep at the floor.
C25_Witness ==
    /\ pc = "advance"
    /\ missingSleep = MinMissingSleep
    /\ slept + MinMissingSleep > advanced

\* C26: the executor starts another advance_execution only from the ready
\* race settled by whenReadyAgain, which only a call of
\* advance_execution_ready made since the previous advance_execution
\* started resolves; and it leaves the sleep towards the ready race only
\* when its timer has run out and fired.
C26_NoPolling ==
    [][/\ (pc # "advance" /\ pc' = "advance") =>
              \/ pc = "start"
              \/ pc = "wait" /\ race = "ready" /\ whenReadyAgain = "ready"
       /\ (whenReadyAgain = "pending" /\ whenReadyAgain' = "ready") =>
              AdvanceExecutionReady
       /\ (pc = "advance" /\ pc' # "advance") => pc' \in {"sleep", "wait", "rejected"}
       /\ (pc = "sleep" /\ pc' # "sleep") =>
              \/ pc' = "done"
              \/ pc' = "wait" /\ race = "timeout" /\ sleepLeft = 0]_vars

\* C26 witness: the executor has slept, its timer has fired, the sandbox has
\* signalled, and the ready race is settled: the next advance_execution is
\* about to start.
C26_Witness ==
    /\ pc = "wait"
    /\ race = "ready"
    /\ whenReadyAgain = "ready"
    /\ missingSleep > SleepThreshold
    /\ sleepLeft = 0
    /\ instance = "live"

\* The executor has not left its loop.
ExecutorLooping == pc \in {"advance", "sleep", "wait"}

\* C27: a call of advance_execution_ready made while the executor has not
\* left its loop leaves whenReadyAgain resolved, whether or not an earlier
\* call of the same turn had resolved it already; and from then on the
\* executor comes to start another advance_execution (a new turn, with a new
\* whenReadyAgain), unless shutdown or a crash makes it leave the loop.
C27_NoSignalLost ==
    /\ [][(AdvanceExecutionReady /\ ExecutorLooping) => whenReadyAgain' = "ready"]_vars
    /\ (ExecutorLooping /\ whenReadyAgain = "ready") ~>
           \/ pc \in {"done", "rejected"}
           \/ pc = "advance" /\ whenReadyAgain = "pending"

\* The name given to the last call of current_task_entered, if no call of
\* current_task_exit came after it.
MostRecentTask(calls) ==
    IF calls = << >> \/ calls[Len(calls)] = Exited THEN "null"
    ELSE calls[Len(calls)].name

\* C28: the currentTask of a wasm-panic event is the name given to the most
\* recent call of current_task_entered that no call of current_task_exit
\* has followed, and null if there is none.
C28_PanicNamesCurrentTask ==
    [][wasmPanicEvents' > wasmPanicEvents =>
           result'.value.currentTask = MostRecentTask(params)]_vars

InPanicCallback == stack # <<>> /\ Top(stack).st = "panicCb"

\* C29: when a wasm-panic event is given to eventCallback state.instance is
\* null already and the stop callback has not been called yet; while the
\* wasm-panic callback runs state.instance stays null, the functions of the
\* Instance called from it only return their defaults (no call of the
\* sandbox starts), and the stop promise is resolved only once the callback
\* has returned.
C29_ClearedBeforePanicEvent ==
    [][/\ wasmPanicEvents' > wasmPanicEvents =>
              /\ instance' = "null"
              /\ stack' # <<>> /\ Top(stack').st = "panicCb"
              /\ UNCHANGED <<onShutdownExecutorOrWasmPanic, shutdownExecutorOrWasmPanicPromise>>
       /\ InPanicCallback =>
              /\ instance = "null" /\ instance' = "null"
              /\ Len(stack') <= Len(stack)
              /\ Len(stack') = Len(stack) =>
                     /\ stack' = stack
                     /\ UNCHANGED <<bufferIndices, onShutdownExecutorOrWasmPanic,
                                    shutdownExecutorOrWasmPanicPromise, wasmPanicEvents>>]_vars

C29_Witness ==
    /\ InPanicCallback
    /\ wasmPanicEvents = 1
    /\ lastFallback = "2"
    /\ onShutdownExecutorOrWasmPanic = "resolveStop"
    /\ shutdownExecutorOrWasmPanicPromise = "pending"

\* addChain is waiting for add_chain or for remove_chain to return.
InAddChain == stack # <<>> /\ Top(stack).cont \in {"addChain", "addChainFails"}

\* addChain gives an add-chain-result to eventCallback: the success of line
\* 618, or the failure of line 624 once remove_chain has returned.
AddChainResult ==
    \/ AddChainReturns /\ instance = "live" /\ stack' = Pop(stack)
    \/ AddChainFails

\* C30: every call of addChain ends with one add-chain-result event, also
\* when the sandbox fails during the call: with state.instance null the
\* failure "Smoldot has crashed"; otherwise the success, or the failure once
\* remove_chain has been called; slots 0, 1 and 2 are unset when the result
\* is given.
C30_AddChainOneResult ==
    [][/\ (AddChain /\ instance = "null") =>
              FallbackStep("add-chain-result: Smoldot has crashed")
       /\ (InAddChain /\ Len(stack') < Len(stack)) =>
              (AddChainResult /\ bufferIndices' = NoBuffers)]_vars

C27_Witness ==
    /\ pc = "sleep"
    /\ sleepLeft > 0
    /\ whenReadyAgain = "ready"
    /\ shutdownExecutorOrWasmPanicPromise = "pending"
    /\ instance = "live"

\* C31: peekJsonRpcResponse removes a response from the queue exactly when
\* it returns one: once no call is in flight, the responses returned are the
\* responses removed, each once and in the order of the queue.
C31_PeekPopsWhatItReturns ==
    (instance = "live" /\ stack = <<>>) => peeked = popped

====
